---- MODULE Spec2Model ----
(***************************************************************************)
(* State-machine model of src/fetchUSDFromPyth.js: configuration           *)
(* validation in main, the price-update acquisition of getPriceUpdateData  *)
(* with its REST fallback, the fee query and the submission of             *)
(* callFetchUSDPrice, and the timer-driven monitor of monitorPrices.       *)
(* Every await of the script is one step; the outcome of each call into    *)
(* the oracle SDK, fetch or ethers is chosen by the environment.           *)
(***************************************************************************)
EXTENDS Integers, Sequences, FiniteSets, TLC

\* ---------------------------------------------------------------- bounds
\* number of 5-second steps the clock may advance after the monitor starts
MaxTicks == 7
\* polls whose getLatestPriceFeeds call has not returned yet
MaxInFlight == 1
\* largest update fee (in wei) the fee query answers
MaxFee == 1
\* times the oracle publishes a new attestation during one run
MaxOracleUpdates == 1
\* price lines the push subscription delivers
MaxPushes == 2

\* ------------------------------------------------------ program constants
GasLimit == 500000
PollInterval == 5000
Duration == 30000
\* 0.01 ETH, in units of 0.001 ETH
LowBalance == 10

PlaceholderRpcUrl == "https://sepolia.infura.io/v3/YOUR_INFURA_KEY"
PlaceholderAddress == "0x..."
Unset == ""

\* ------------------------------------------------- base64 -> hex (l. 159)
\* the base64 alphabet used by the attestations of the model
B64Value(c) ==
    CASE c = "A" -> 0
      [] c = "D" -> 3
      [] c = "I" -> 8
      [] c = "Q" -> 16
      [] c = "w" -> 48
      [] c = "8" -> 60
      [] c = "/" -> 63

HexDigit(n) ==
    <<"0","1","2","3","4","5","6","7","8","9","a","b","c","d","e","f">>[n + 1]

\* toString("hex"): two lowercase digits per byte
RECURSIVE BytesToHex(_)
BytesToHex(bytes) ==
    IF bytes = <<>> THEN <<>>
    ELSE <<HexDigit(Head(bytes) \div 16), HexDigit(Head(bytes) % 16)>>
             \o BytesToHex(Tail(bytes))

\* the characters before the first padding character
RECURSIVE B64Data(_)
B64Data(s) ==
    IF s = <<>> \/ Head(s) = "=" THEN <<>>
    ELSE <<Head(s)>> \o B64Data(Tail(s))

\* Buffer.from(s, "base64"): 4 characters give 3 bytes, a tail of 3 gives 2,
\* a tail of 2 gives 1 and a single trailing character gives none
RECURSIVE B64Decode(_)
B64Decode(d) ==
    IF Len(d) < 2 THEN <<>>
    ELSE LET a == B64Value(d[1])
             b == B64Value(d[2])
             b1 == a * 4 + b \div 16
         IN IF Len(d) = 2 THEN <<b1>>
            ELSE LET c == B64Value(d[3])
                     b2 == (b % 16) * 16 + c \div 4
                 IN IF Len(d) = 3 THEN <<b1, b2>>
                    ELSE LET e == B64Value(d[4])
                             b3 == (c % 4) * 64 + e
                         IN <<b1, b2, b3>> \o B64Decode(SubSeq(d, 5, Len(d)))

\* "0x" + Buffer.from(vaa, "base64").toString("hex")
VaaToHex(vaa) == <<"0", "x">> \o BytesToHex(B64Decode(B64Data(vaa)))

\* vaaData.map(...)
VaaListToHex(vaaData) == [i \in 1..Len(vaaData) |-> VaaToHex(vaaData[i])]

\* ------------------------------------------------------------ environment
\* signed attestations the oracle serves, base64: "AQID", "/w==", "//8="
VaaA == <<"A", "Q", "I", "D">>
VaaB == <<"/", "w", "=", "=">>
VaaC == <<"/", "/", "8", "=">>
Oracles == { <<VaaA>>, <<VaaB, VaaC>> }

Fees == 0..MaxFee
\* wallet balances, in units of 0.001 ETH
Balances == {LowBalance - 1, LowBalance}

\* an exception: where it was raised and which of the two substrings that
\* callFetchUSDPrice looks for its message contains
NoError == [src |-> "none", insufficient |-> FALSE, reverted |-> FALSE]
Err(src, i, r) == [src |-> src, insufficient |-> i, reverted |-> r]
\* an Error constructed by the script itself, with a fixed message
OwnErr(src) == Err(src, FALSE, FALSE)

NoTx == [sent |-> FALSE, payload |-> <<>>, value |-> 0, gasLimit |-> 0]
NoPayload == <<>>

VARIABLES
    envRpc, envKey, envAddr,     \* process.env
    hasUpdatesData,              \* typeof priceService.getPriceUpdatesData === "function"
    hasFeedsUpdateData,          \* typeof priceService.getPriceFeedsUpdateData === "function"
    hasSubscribe,                \* typeof priceService.subscribePriceFeedUpdates === "function"
    oracle, oracleUpdates,       \* the attestations the oracle currently serves
    pc,                          \* position of the main control flow
    exitCode,                    \* -1 while the process runs
    netCalled,                   \* some network request has been issued
    out,                         \* console lines of the workflow, in order
    priceFeeds,                  \* local of getPriceUpdateData
    fetched,                     \* what the fetch of this invocation returned
    restReturned,                \* getPriceUpdateDataViaRest returned a payload
    primaryOk,                   \* getPriceUpdateData returned by its primary path
    gpudDone,                    \* getPriceUpdateData has returned or thrown
    restCalls,                   \* invocations of getPriceUpdateDataViaRest
    priceUpdateData,             \* local of callFetchUSDPrice
    feeQueries, feeArg, feeReturned, updateFee,
    submissions, tx, confirmed, receiptReturned,
    err,                         \* the failure raised inside callFetchUSDPrice
    mainErr,                     \* the failure caught by main
    monitorStarted, monMode, now, intervalActive, nextPoll,
    clearPending, stopPending, subscribed,
    inFlight, stopped, priceCount, pollFailed,
    lineAfterElapsed, lineAfterStopped

cfgVars == <<envRpc, envKey, envAddr, hasUpdatesData, hasFeedsUpdateData, hasSubscribe>>
oracleVars == <<oracle, oracleUpdates>>
fetchVars == <<priceFeeds, fetched, restReturned, primaryOk, gpudDone, restCalls,
               priceUpdateData>>
feeVars == <<feeQueries, feeArg, feeReturned, updateFee>>
txVars == <<submissions, tx, confirmed, receiptReturned>>
errVars == <<err, mainErr>>
monVars == <<monitorStarted, monMode, now, intervalActive, nextPoll, clearPending,
             stopPending, subscribed, inFlight, stopped, priceCount, pollFailed,
             lineAfterElapsed, lineAfterStopped>>
vars == <<cfgVars, oracleVars, pc, exitCode, netCalled, out, fetchVars, feeVars,
          txVars, errVars, monVars>>

\* CONFIG (l. 11-25)
ConfigRpcUrl == IF envRpc = Unset THEN PlaceholderRpcUrl ELSE envRpc
ConfigPrivateKey == envKey
ConfigContractAddress == IF envAddr = Unset THEN PlaceholderAddress ELSE envAddr

Init ==
    /\ envRpc \in {Unset, "https://rpc.example"}
    /\ envKey \in {Unset, "key"}
    /\ envAddr \in {Unset, PlaceholderAddress, "0xC0"}
    /\ hasUpdatesData \in BOOLEAN
    /\ hasFeedsUpdateData \in BOOLEAN
    /\ hasSubscribe \in BOOLEAN
    /\ oracle \in Oracles
    /\ oracleUpdates = 0
    /\ pc = "start"
    /\ exitCode = -1
    /\ netCalled = FALSE
    /\ out = <<>>
    /\ priceFeeds = <<>> /\ restReturned = FALSE
    /\ fetched = NoPayload /\ primaryOk = FALSE /\ gpudDone = FALSE
    /\ restCalls = 0 /\ priceUpdateData = NoPayload
    /\ feeQueries = 0 /\ feeArg = NoPayload /\ feeReturned = FALSE /\ updateFee = 0
    /\ submissions = 0 /\ tx = NoTx /\ confirmed = FALSE /\ receiptReturned = FALSE
    /\ err = NoError /\ mainErr = NoError
    /\ monitorStarted = FALSE /\ monMode = "none" /\ now = 0
    /\ intervalActive = FALSE /\ nextPoll = 0
    /\ clearPending = FALSE /\ stopPending = FALSE /\ subscribed = FALSE
    /\ inFlight = 0 /\ stopped = FALSE /\ priceCount = 0 /\ pollFailed = FALSE
    /\ lineAfterElapsed = FALSE /\ lineAfterStopped = FALSE


Say(lines) == out' = out \o lines

\* ---------------------------------------------------------- main, l. 326-364
\* main's configuration validation: process.exit(1) on a missing private key
\* or on the placeholder contract address; the RPC URL is not looked at
Validate ==
    /\ pc = "start"
    /\ IF ConfigPrivateKey = Unset
       THEN /\ Say(<<"errNoPrivateKey">>) /\ exitCode' = 1 /\ pc' = "exited"
       ELSE IF ConfigContractAddress = PlaceholderAddress
       THEN /\ Say(<<"errNoContractAddress">>) /\ exitCode' = 1 /\ pc' = "exited"
       ELSE /\ pc' = "construct" /\ UNCHANGED <<out, exitCode>>
    /\ UNCHANGED <<cfgVars, oracleVars, netCalled, fetchVars, feeVars, txVars,
                   errVars, monVars>>

\* new SimplePythScript(): provider, wallet and contract objects; a throw of
\* the ethers constructors lands in main's catch
Construct ==
    /\ pc = "construct"
    /\ \E ok \in BOOLEAN :
         IF ok
         THEN /\ Say(<<"initialized">>) /\ pc' = "balance" /\ UNCHANGED mainErr
         ELSE /\ mainErr' = OwnErr("constructor") /\ pc' = "main_catch"
              /\ UNCHANGED out
    /\ UNCHANGED <<cfgVars, oracleVars, exitCode, netCalled, fetchVars, feeVars,
                   txVars, err, monVars>>

\* checkBalance: one balance request; a low balance only prints a warning
CheckBalance ==
    /\ pc = "balance"
    /\ netCalled' = TRUE
    /\ \/ \E balance \in Balances :
            /\ Say(IF balance < LowBalance
                   THEN <<"balance", "lowBalanceWarning">> ELSE <<"balance">>)
            /\ pc' = "sdk_fetch"
            /\ UNCHANGED mainErr
       \/ /\ mainErr' = OwnErr("balance") /\ pc' = "main_catch" /\ UNCHANGED out
    /\ UNCHANGED <<cfgVars, oracleVars, exitCode, fetchVars, feeVars, txVars, err,
                   monVars>>

\* main's catch without process.exit(1): the run ends with the implicit code
MainCatchNoExit ==
    /\ pc = "main_catch"
    /\ Say(<<"scriptFailed">>)
    /\ exitCode' = 0
    /\ pc' = "exited"
    /\ UNCHANGED <<cfgVars, oracleVars, netCalled, fetchVars, feeVars, txVars,
                   errVars, monVars>>

\* main's catch: print and process.exit(1)
MainCatch ==
    /\ pc = "main_catch"
    /\ Say(<<"scriptFailed">>)
    /\ exitCode' = 1
    /\ pc' = "exited"
    /\ UNCHANGED <<cfgVars, oracleVars, netCalled, fetchVars, feeVars, txVars,
                   errVars, monVars>>

\* the oracle network publishes a newer attestation while the workflow runs
OracleUpdate ==
    /\ pc \in {"sdk_fetch", "sdk_serialize", "sdk_settle", "rest_feeds", "rest_vaas",
               "fee", "send", "wait"}
    /\ oracleUpdates < MaxOracleUpdates
    /\ oracleUpdates' = oracleUpdates + 1
    /\ \E o \in Oracles \ {oracle} : oracle' = o
    /\ UNCHANGED <<cfgVars, pc, exitCode, netCalled, out, fetchVars, feeVars, txVars,
                   errVars, monVars>>

\* ------------------------------------------- getPriceUpdateData, l. 78-121
\* the catch of getPriceUpdateData: log and call the REST fallback
EnterRestFallback ==
    /\ Say(<<"errFetching", "tryingRest">>)
    /\ restCalls' = restCalls + 1
    /\ pc' = "rest_feeds"

\* getPriceUpdateData returns payload p to callFetchUSDPrice
ReturnPayload(p, viaPrimary) ==
    /\ fetched' = p
    /\ priceUpdateData' = p
    /\ primaryOk' = viaPrimary
    /\ gpudDone' = TRUE
    /\ pc' = "fee"

\* getPriceUpdateData throws e into the try block of callFetchUSDPrice
ThrowFromFetch(e) ==
    /\ err' = e
    /\ gpudDone' = TRUE
    /\ pc' = "cf_catch"

\* await priceService.getLatestPriceFeeds and the length test (l. 83-87, 112)
SdkFetch ==
    /\ pc = "sdk_fetch"
    /\ netCalled' = TRUE
    /\ \/ \* the call throws, or answers no feed: throw new Error(...)
          /\ EnterRestFallback
          /\ UNCHANGED priceFeeds
       \/ \* one feed: print the decoded price
          /\ priceFeeds' = oracle
          /\ Say(<<"price">>)
          /\ pc' = "sdk_serialize"
          /\ UNCHANGED restCalls
    /\ UNCHANGED <<cfgVars, oracleVars, exitCode, fetched, restReturned, primaryOk,
                   gpudDone, priceUpdateData, feeVars, txVars, errVars, monVars>>

\* which serialization the method probe of l. 100-107 selects
SerializeMethod ==
    IF hasUpdatesData THEN "getPriceUpdatesData"
    ELSE IF hasFeedsUpdateData THEN "getPriceFeedsUpdateData"
    ELSE "serialize"

\* l. 99-110: the selected serialization is called without await and its
\* result returned from inside the try block. It yields the payload, throws,
\* or (an SDK method only) yields a promise that settles after the return
SdkSerialize ==
    /\ pc = "sdk_serialize"
    /\ \/ /\ Say(<<"ready">>)
          /\ ReturnPayload(VaaListToHex(priceFeeds), TRUE)
          /\ UNCHANGED <<restCalls, err>>
       \/ /\ EnterRestFallback
          /\ UNCHANGED <<fetched, priceUpdateData, primaryOk, gpudDone, err>>
       \/ /\ SerializeMethod # "serialize"
          /\ Say(<<"ready">>)
          /\ pc' = "sdk_settle"
          /\ UNCHANGED <<fetched, priceUpdateData, primaryOk, gpudDone, restCalls, err>>
    /\ UNCHANGED <<cfgVars, oracleVars, exitCode, netCalled, priceFeeds, restReturned,
                   feeVars, txVars, mainErr, monVars>>

\* the promise returned at l. 110 settles: the async function has already left
\* its try block, so a rejection goes to the caller and not to the catch
SdkSettle ==
    /\ pc = "sdk_settle"
    /\ netCalled' = TRUE
    /\ \/ /\ ReturnPayload(VaaListToHex(oracle), TRUE)
          /\ UNCHANGED err
       \/ /\ \E i \in BOOLEAN, r \in BOOLEAN : ThrowFromFetch(Err("sdk", i, r))
          /\ UNCHANGED <<fetched, priceUpdateData, primaryOk>>
    /\ UNCHANGED <<cfgVars, oracleVars, exitCode, out, priceFeeds, restReturned,
                   restCalls, feeVars, txVars, mainErr, monVars>>

\* ------------------------------------ getPriceUpdateDataViaRest, l. 124-168
\* GET latest_price_feeds, the ok test and the length test
RestFeeds ==
    /\ pc = "rest_feeds"
    /\ netCalled' = TRUE
    /\ \/ \* fetch or json() rejects
          /\ \E i \in BOOLEAN, r \in BOOLEAN : ThrowFromFetch(Err("rest", i, r))
          /\ Say(<<"restFailed">>)
       \/ \* !response.ok, or no price data
          /\ ThrowFromFetch(OwnErr("rest"))
          /\ Say(<<"restFailed">>)
       \/ /\ Say(<<"price">>)
          /\ pc' = "rest_vaas"
          /\ UNCHANGED <<err, gpudDone>>
    /\ UNCHANGED <<cfgVars, oracleVars, exitCode, priceFeeds, fetched, restReturned,
                   primaryOk, restCalls, priceUpdateData, feeVars, txVars, mainErr,
                   monVars>>

\* GET latest_vaas, the ok test, and the map of l. 158-160 over the answer,
\* which is the oracle's current attestations or an empty list
RestVaas ==
    /\ pc = "rest_vaas"
    /\ netCalled' = TRUE
    /\ \/ /\ \E i \in BOOLEAN, r \in BOOLEAN : ThrowFromFetch(Err("rest", i, r))
          /\ Say(<<"restFailed">>)
          /\ UNCHANGED <<fetched, priceUpdateData, primaryOk, restReturned>>
       \/ /\ ThrowFromFetch(OwnErr("rest"))
          /\ Say(<<"restFailed">>)
          /\ UNCHANGED <<fetched, priceUpdateData, primaryOk, restReturned>>
       \/ /\ \E vaaData \in {oracle, <<>>} :
               ReturnPayload(VaaListToHex(vaaData), FALSE)
          /\ Say(<<"readyRest">>)
          /\ restReturned' = TRUE
          /\ UNCHANGED err
    /\ UNCHANGED <<cfgVars, oracleVars, exitCode, priceFeeds, restCalls, feeVars,
                   txVars, mainErr, monVars>>


\* ------------------------------------------- callFetchUSDPrice, l. 189-244
\* the argument of pythContract.getUpdateFee (l. 205)
FeeQueryPayload == priceUpdateData

\* the payload read again from the oracle at submission time
SubmittedPayloadRefetched == VaaListToHex(oracle)

\* the first argument of this.contract.fetchUSDPrice (l. 213)
SubmittedPayload == priceUpdateData

\* the overrides without the fee
TxOptionsNoValue(fee) == [value |-> 0, gasLimit |-> GasLimit]

\* the transaction overrides of l. 213-216
TxOptions(fee) == [value |-> fee, gasLimit |-> GasLimit]

\* the tips with the first branch lost
HintsRevertedOnly(e) ==
    IF e.reverted THEN <<"tipExecutionReverted">> ELSE <<>>

\* the tips of l. 232-240: an if / else-if over the message of the error
Hints(e) ==
    IF e.insufficient THEN <<"tipInsufficientFunds">>
    ELSE IF e.reverted THEN <<"tipExecutionReverted">>
    ELSE <<>>

\* await pythContract.getUpdateFee(priceUpdateData)
FeeQuery ==
    /\ pc = "fee"
    /\ netCalled' = TRUE
    /\ feeQueries' = feeQueries + 1
    /\ feeArg' = FeeQueryPayload
    /\ \/ \E fee \in Fees :
            /\ updateFee' = fee
            /\ feeReturned' = TRUE
            /\ Say(<<"fee", "sending">>)
            /\ pc' = "send"
            /\ UNCHANGED err
       \/ /\ \E i \in BOOLEAN, r \in BOOLEAN : err' = Err("fee", i, r)
          /\ pc' = "cf_catch"
          /\ UNCHANGED <<updateFee, feeReturned, out>>
    /\ UNCHANGED <<cfgVars, oracleVars, exitCode, fetchVars, txVars, mainErr, monVars>>

\* the submission without the await of tx.wait()
SendTxNoWait ==
    /\ pc = "send"
    /\ netCalled' = TRUE
    /\ submissions' = submissions + 1
    /\ tx' = [sent |-> TRUE, payload |-> SubmittedPayload,
              value |-> TxOptions(updateFee).value,
              gasLimit |-> TxOptions(updateFee).gasLimit]
    /\ \/ /\ Say(<<"txHash">>)
          /\ receiptReturned' = TRUE
          /\ pc' = "monitor"
          /\ UNCHANGED err
       \/ /\ \E i \in BOOLEAN, r \in BOOLEAN : err' = Err("send", i, r)
          /\ pc' = "cf_catch"
          /\ UNCHANGED <<out, receiptReturned>>
    /\ UNCHANGED <<cfgVars, oracleVars, exitCode, fetchVars, feeVars, confirmed,
                   mainErr, monVars>>

\* await this.contract.fetchUSDPrice(priceUpdateData, {value, gasLimit})
SendTx ==
    /\ pc = "send"
    /\ netCalled' = TRUE
    /\ submissions' = submissions + 1
    /\ tx' = [sent |-> TRUE, payload |-> SubmittedPayload,
              value |-> TxOptions(updateFee).value,
              gasLimit |-> TxOptions(updateFee).gasLimit]
    /\ \/ /\ Say(<<"txHash", "waiting">>)
          /\ pc' = "wait"
          /\ UNCHANGED err
       \/ /\ \E i \in BOOLEAN, r \in BOOLEAN : err' = Err("send", i, r)
          /\ pc' = "cf_catch"
          /\ UNCHANGED out
    /\ UNCHANGED <<cfgVars, oracleVars, exitCode, fetchVars, feeVars, confirmed,
                   receiptReturned, mainErr, monVars>>

\* await tx.wait(), then return receipt
WaitReceipt ==
    /\ pc = "wait"
    /\ \/ /\ confirmed' = TRUE
          /\ receiptReturned' = TRUE
          /\ Say(<<"confirmed">>)
          /\ pc' = "monitor"
          /\ UNCHANGED err
       \/ /\ \E i \in BOOLEAN, r \in BOOLEAN : err' = Err("wait", i, r)
          /\ pc' = "cf_catch"
          /\ UNCHANGED <<confirmed, receiptReturned, out>>
    /\ UNCHANGED <<cfgVars, oracleVars, exitCode, netCalled, fetchVars, feeVars,
                   submissions, tx, mainErr, monVars>>

\* the catch of callFetchUSDPrice: log, print the tip, throw error
CatchInCallFetch ==
    /\ pc = "cf_catch"
    /\ Say(<<"errCalling">> \o Hints(err))
    /\ mainErr' = err
    /\ pc' = "main_catch"
    /\ UNCHANGED <<cfgVars, oracleVars, exitCode, netCalled, fetchVars, feeVars,
                   txVars, err, monVars>>

\* ----------------------------------------------- monitorPrices, l. 247-322
\* a price line of the monitor is printed (l. 263-275, 292-304)
PrintPriceLine ==
    /\ priceCount' = priceCount + 1
    /\ lineAfterElapsed' = (lineAfterElapsed \/ now > Duration)
    /\ lineAfterStopped' = (lineAfterStopped \/ stopped)

\* script.monitorPrices(30000) called from main (l. 354-359): subscribe, or
\* set the 5-second interval and the timeout that clears it; then set the
\* timeout of the stop message. No await: main prints its last line at once
MonitorStart ==
    /\ pc = "monitor"
    /\ monitorStarted' = TRUE
    /\ now' = 0
    /\ IF hasSubscribe
       THEN \/ /\ subscribed' = TRUE
               /\ monMode' = "push"
               /\ stopPending' = TRUE
               /\ Say(<<"monitoring", "completed">>)
               /\ pc' = "eventloop"
               /\ UNCHANGED <<intervalActive, nextPoll, clearPending, mainErr>>
            \/ \* subscribePriceFeedUpdates throws: monitorPrices rejects
               /\ mainErr' = OwnErr("subscribe")
               /\ Say(<<"monitoring">>)
               /\ pc' = "main_catch"
               /\ UNCHANGED <<subscribed, monMode, stopPending, intervalActive,
                              nextPoll, clearPending>>
       ELSE /\ monMode' = "poll"
            /\ intervalActive' = TRUE
            /\ nextPoll' = PollInterval
            /\ clearPending' = TRUE
            /\ stopPending' = TRUE
            /\ Say(<<"monitoring", "polling", "completed">>)
            /\ pc' = "eventloop"
            /\ UNCHANGED <<subscribed, mainErr>>
    /\ UNCHANGED <<cfgVars, oracleVars, exitCode, netCalled, fetchVars, feeVars,
                   txVars, err, inFlight, stopped, priceCount, pollFailed,
                   lineAfterElapsed, lineAfterStopped>>

\* 5 seconds pass; a timer that is due runs before the clock moves on
Tick ==
    /\ pc = "eventloop"
    /\ now < MaxTicks * PollInterval
    /\ intervalActive => now < nextPoll
    /\ (clearPending \/ stopPending) => now < Duration
    /\ now' = now + PollInterval
    /\ UNCHANGED <<cfgVars, oracleVars, pc, exitCode, netCalled, out, fetchVars,
                   feeVars, txVars, errVars, monitorStarted, monMode, intervalActive,
                   nextPoll, clearPending, stopPending, subscribed, inFlight, stopped,
                   priceCount, pollFailed, lineAfterElapsed, lineAfterStopped>>

\* the interval callback starts: getLatestPriceFeeds is requested (l. 281-285)
IntervalFire ==
    /\ pc = "eventloop"
    /\ intervalActive
    /\ nextPoll <= now
    /\ inFlight < MaxInFlight
    /\ inFlight' = inFlight + 1
    /\ nextPoll' = now + PollInterval
    /\ UNCHANGED <<cfgVars, oracleVars, pc, exitCode, netCalled, out, fetchVars,
                   feeVars, txVars, errVars, monitorStarted, monMode, now,
                   intervalActive, clearPending, stopPending, subscribed, stopped,
                   priceCount, pollFailed, lineAfterElapsed, lineAfterStopped>>

\* a poll whose failure clears the interval
PollReturnStopsOnError ==
    /\ pc = "eventloop"
    /\ inFlight > 0
    /\ inFlight' = inFlight - 1
    /\ \/ /\ PrintPriceLine
          /\ UNCHANGED <<pollFailed, intervalActive>>
       \/ UNCHANGED <<priceCount, lineAfterElapsed, lineAfterStopped, pollFailed,
                      intervalActive>>
       \/ /\ pollFailed' = TRUE
          /\ intervalActive' = FALSE
          /\ UNCHANGED <<priceCount, lineAfterElapsed, lineAfterStopped>>
    /\ UNCHANGED <<cfgVars, oracleVars, pc, exitCode, netCalled, out, fetchVars,
                   feeVars, txVars, errVars, monitorStarted, monMode, now,
                   nextPoll, clearPending, stopPending, subscribed, stopped>>

\* the request of a poll returns: a price line, nothing for an empty answer,
\* or the catch of l. 306-308, which only logs
PollReturn ==
    /\ pc = "eventloop"
    /\ inFlight > 0
    /\ inFlight' = inFlight - 1
    /\ \/ /\ PrintPriceLine
          /\ UNCHANGED pollFailed
       \/ UNCHANGED <<priceCount, lineAfterElapsed, lineAfterStopped, pollFailed>>
       \/ /\ pollFailed' = TRUE
          /\ UNCHANGED <<priceCount, lineAfterElapsed, lineAfterStopped>>
    /\ UNCHANGED <<cfgVars, oracleVars, pc, exitCode, netCalled, out, fetchVars,
                   feeVars, txVars, errVars, monitorStarted, monMode, now,
                   intervalActive, nextPoll, clearPending, stopPending, subscribed,
                   stopped>>

\* the timeout of l. 311-313: clearInterval(interval)
ClearTimer ==
    /\ pc = "eventloop"
    /\ clearPending
    /\ now >= Duration
    /\ clearPending' = FALSE
    /\ intervalActive' = FALSE
    /\ UNCHANGED <<cfgVars, oracleVars, pc, exitCode, netCalled, out, fetchVars,
                   feeVars, txVars, errVars, monitorStarted, monMode, now, nextPoll,
                   stopPending, subscribed, inFlight, stopped, priceCount, pollFailed,
                   lineAfterElapsed, lineAfterStopped>>

\* the timeout of l. 317-321: the stop message. It was set after the clearing
\* timeout with the same delay, so it runs after it
StopTimer ==
    /\ pc = "eventloop"
    /\ stopPending
    /\ ~clearPending
    /\ now >= Duration
    /\ stopPending' = FALSE
    /\ stopped' = TRUE
    /\ UNCHANGED <<cfgVars, oracleVars, pc, exitCode, netCalled, out, fetchVars,
                   feeVars, txVars, errVars, monitorStarted, monMode, now,
                   intervalActive, nextPoll, clearPending, subscribed, inFlight,
                   priceCount, pollFailed, lineAfterElapsed, lineAfterStopped>>

\* the subscription callback of l. 259-276; nothing ever unsubscribes it
PushUpdate ==
    /\ pc = "eventloop"
    /\ subscribed
    /\ priceCount < MaxPushes
    /\ PrintPriceLine
    /\ UNCHANGED <<cfgVars, oracleVars, pc, exitCode, netCalled, out, fetchVars,
                   feeVars, txVars, errVars, monitorStarted, monMode, now,
                   intervalActive, nextPoll, clearPending, stopPending, subscribed,
                   inFlight, stopped, pollFailed>>

\* nothing is pending any more: the process ends with the implicit code 0
ProcessEnd ==
    /\ pc = "eventloop"
    /\ ~intervalActive /\ ~clearPending /\ ~stopPending /\ ~subscribed
    /\ inFlight = 0
    /\ exitCode' = 0
    /\ pc' = "exited"
    /\ UNCHANGED <<cfgVars, oracleVars, netCalled, out, fetchVars, feeVars, txVars,
                   errVars, monVars>>

Next ==
    \/ Validate \/ Construct \/ CheckBalance \/ MainCatch \/ OracleUpdate
    \/ SdkFetch \/ SdkSerialize \/ SdkSettle \/ RestFeeds \/ RestVaas
    \/ FeeQuery \/ SendTx \/ WaitReceipt \/ CatchInCallFetch
    \/ MonitorStart \/ Tick \/ IntervalFire \/ PollReturn \/ ClearTimer
    \/ StopTimer \/ PushUpdate \/ ProcessEnd

Spec == Init /\ [][Next]_vars


\* ------------------------------------------------------------- properties
Printed(line) == \E i \in 1..Len(out) : out[i] = line

HexChars == {"0","1","2","3","4","5","6","7","8","9","a","b","c","d","e","f"}

\* a string "0x" followed by hexadecimal digits
IsPrefixedHex(str) ==
    /\ Len(str) >= 2
    /\ str[1] = "0" /\ str[2] = "x"
    /\ \A i \in 3..Len(str) : str[i] \in HexChars

InvalidConfig ==
    \/ envRpc = Unset \/ envRpc = PlaceholderRpcUrl
    \/ envKey = Unset
    \/ envAddr = Unset \/ envAddr = PlaceholderAddress

\* C1: once getPriceUpdateData has returned or thrown, the REST fallback was
\* invoked zero times if the primary path produced the payload and exactly
\* once in every other case, and a failure of the fallback went to the caller
\* without another attempt.
C1_FallbackExactlyOnce ==
    /\ restCalls <= 1
    /\ gpudDone => IF primaryOk THEN restCalls = 0 ELSE restCalls = 1
    /\ err.src = "rest" => (restCalls = 1 /\ pc \in {"cf_catch", "main_catch", "exited"})

\* C2: a submitted transaction carries as value exactly the fee that the fee
\* query of the same invocation returned, and the gas limit 500000.
C2_ValueIsFee ==
    tx.sent => (feeReturned /\ tx.value = updateFee /\ tx.gasLimit = 500000)

C2_Witness == tx.sent /\ feeReturned /\ tx.value = 1 /\ pc = "wait"

\* C3: the payload given to the fee query and the payload carried by the
\* transaction are the payload the fetch of this invocation returned, also
\* when the oracle has published a newer attestation since the fetch.
C3_PayloadIsFetched ==
    /\ feeQueries > 0 => (gpudDone /\ feeArg = fetched)
    /\ tx.sent => (gpudDone /\ tx.payload = fetched)

C3_Witness ==
    /\ tx.sent /\ feeQueries = 1
    /\ tx.payload = fetched
    /\ fetched # VaaListToHex(oracle)
    /\ Len(fetched) > 0

\* C4: there is at most one fee query, one submission and one REST fallback
\* per run; after a failure inside callFetchUSDPrice the control flow is in
\* the catch chain only (nothing is retried), the monitor has not been
\* started, and the process ends with exit code 1.
C4_FailureIsTerminal ==
    /\ feeQueries <= 1 /\ submissions <= 1 /\ restCalls <= 1
    /\ err # NoError =>
         /\ pc \in {"cf_catch", "main_catch", "exited"}
         /\ ~monitorStarted
         /\ pc = "exited" => exitCode = 1
         /\ exitCode \in {-1, 1}

C4_Witness == err.src = "send" /\ submissions = 1 /\ pc = "exited" /\ exitCode = 1

\* C5 (as stated): a failure of callFetchUSDPrice reaches the caller unchanged,
\* and by then the insufficient-funds tip has been printed if the message
\* contains "insufficient funds" and the execution-reverted tip if it
\* contains "execution reverted".
C5_EachHintPrinted ==
    (err # NoError /\ pc \in {"main_catch", "exited"}) =>
        /\ mainErr = err
        /\ err.insufficient => Printed("tipInsufficientFunds")
        /\ err.reverted => Printed("tipExecutionReverted")

\* C5 (amended): a failure of callFetchUSDPrice reaches the caller unchanged
\* and is never swallowed; by then the insufficient-funds tip has been printed
\* if the message contains "insufficient funds", and the execution-reverted
\* tip if it contains "execution reverted" and not "insufficient funds".
C5_HintThenRethrow ==
    /\ err # NoError => pc \in {"cf_catch", "main_catch", "exited"}
    /\ (err # NoError /\ pc \in {"main_catch", "exited"}) =>
         /\ mainErr = err
         /\ Printed("errCalling")
         /\ err.insufficient => Printed("tipInsufficientFunds")
         /\ (err.reverted /\ ~err.insufficient) => Printed("tipExecutionReverted")

C5_Witness ==
    /\ pc = "main_catch"
    /\ err.reverted /\ ~err.insufficient
    /\ mainErr = err
    /\ Printed("tipExecutionReverted")
    /\ ~Printed("scriptFailed")

\* C6: the monitor prints no price line after its duration has elapsed, and
\* none after the "Monitoring stopped" message.
C6_NoLineAfterDuration == ~lineAfterElapsed /\ ~lineAfterStopped

\* C7: in polling mode, after a poll has failed no exception has left the
\* monitor (main caught nothing and the process did not exit with 1), and
\* until the duration elapses the interval stays armed with its next poll at
\* most 5 seconds away.
C7_PollFailureKeepsLoop ==
    (monMode = "poll" /\ pollFailed) =>
        /\ mainErr = NoError
        /\ exitCode # 1
        /\ now < Duration => (intervalActive /\ nextPoll <= now + PollInterval)

C7_Witness ==
    /\ monMode = "poll" /\ pollFailed
    /\ now < Duration
    /\ intervalActive /\ inFlight = 1

\* C8: the workflow is past validation, or has issued a network call, only if
\* the RPC endpoint, the private key and the contract address are all present
\* and no placeholder; otherwise the process exits with code 1 without a
\* network call.
C8_AllThreeValidated ==
    /\ (pc \notin {"start", "exited"} \/ netCalled) => ~InvalidConfig
    /\ (InvalidConfig /\ pc = "exited") => (exitCode = 1 /\ ~netCalled)

\* C9: the fee query comes after the fetch has returned, the submission after
\* the fee query has returned, the receipt is returned only once the
\* transaction is confirmed, and the monitor starts only after the receipt
\* has been returned without a failure.
C9_StrictOrder ==
    /\ feeQueries > 0 => gpudDone
    /\ submissions > 0 => (feeReturned /\ feeQueries = 1)
    /\ confirmed => tx.sent
    /\ receiptReturned => (confirmed /\ submissions = 1)
    /\ monitorStarted => (receiptReturned /\ err = NoError)

C9_Witness ==
    /\ monitorStarted /\ receiptReturned /\ confirmed
    /\ feeQueries = 1 /\ submissions = 1
    /\ pc = "eventloop"

\* C10: a payload returned by the REST fallback is a non-empty list of
\* strings, each "0x" followed by hexadecimal digits.
C10_RestPayloadNonEmptyHex ==
    restReturned =>
        /\ Len(fetched) > 0
        /\ \A i \in 1..Len(fetched) : IsPrefixedHex(fetched[i])

====
